---- MODULE Spec2Model ----
(***************************************************************************)
(* Model of the useDebouncedValidator React hook                           *)
(* (src/unnamed/part_003, imported by its test suite as                    *)
(* '../use-debounced-validator').                                          *)
(*                                                                         *)
(* JavaScript values that a validation can produce are written as the      *)
(* strings "true", "false", "null" and "undefined"; candidate values of    *)
(* type T are the integers 1..NumValues, and defaultValue (0) stands for   *)
(* the value of options.defaultValue, whatever it is (undefined when the   *)
(* option is not passed); callers may pass it like any other value.        *)
(* Candidate values are interchangeable, so a behaviour introduces them in *)
(* increasing order.                                                       *)
(*                                                                         *)
(* The hook is single threaded: every action below is one macrotask (a     *)
(* call of debouncedValidator, a timer callback up to its first await, the *)
(* continuation of performValidation after the await, the effect cleanup). *)
(***************************************************************************)
EXTENDS Integers, Sequences, FiniteSets, TLC

\* ------------------------------------------------------------- bounds
\* total number of debouncedValidator calls in one behaviour
MaxCalls == 3
\* number of distinct candidate values
NumValues == 3
\* largest debounce delay, in clock ticks
MaxDelay == 1

Values == 1..NumValues
NoTimer == 0
Delays == -1..MaxDelay
Booleans == {"true", "false"}
Nullish == {"null", "undefined"}

\* const { delay = 500, negate = false, defaultValue } = memoizedOptions
defaultValue == 0

VARIABLES
    delay,                \* options.delay
    negate,               \* options.negate
    nullish,              \* validate may also resolve to null or undefined
    lastResult,           \* React state: the reactive signal
    rendered,             \* values of lastResult some render has closed over
    mounted,              \* FALSE once the effect cleanup has run
    lastValueRef,
    lastResultRef,
    timerRef,             \* handle of the armed timer, or NoTimer (null)
    pendingResolversRef,  \* sequence of resolvers (call numbers)
    pendingValueRef,
    timers,               \* the runtime's pending timeouts
    calls,                \* one record per debouncedValidator call: its promise
    windows,              \* one record per timer expiry: its validate call
    cleanupCleared,       \* the cleanup has called clearTimeout
    sinceInvoke,          \* ticks counted since validate was last called
    sinceCall             \* ticks counted since a call last armed the timer

vars == <<delay, negate, nullish, lastResult, rendered, mounted,
          lastValueRef, lastResultRef, timerRef, pendingResolversRef,
          pendingValueRef, timers, calls, windows, cleanupCleared,
          sinceInvoke, sinceCall>>

options == <<delay, negate, nullish>>

\* what only the cleanup, the clock and an arming call write
ghosts == <<cleanupCleared, sinceInvoke, sinceCall>>

\* ------------------------------------------------------ JavaScript helpers
\* ToBoolean of a validation result
Truthy(x) == x = "true"

\* the ! operator
Not(x) == IF Truthy(x) THEN "false" ELSE "true"

\* Object.is on the modelled values (no NaN, no signed zero among them)
ObjectIs(a, b) == a = b

\* the === operator on the modelled values
StrictEq(a, b) == a = b

NoTimeout(d) == 0

\* a runtime that takes the magnitude of a negative timeout
AbsTimeout(d) == IF d < 0 THEN 0 - d ELSE d

\* setTimeout treats a negative timeout as 0
TimeoutOf(d) == IF d < 0 THEN 0 ELSE d

NegateIgnored(raw) == raw

\* const result = negate ? !rawResult : rawResult
NegateApplied(raw) == IF negate THEN Not(raw) ELSE raw

RECURSIVE SeqToSet(_)
SeqToSet(s) == IF s = <<>> THEN {} ELSE {Head(s)} \cup SeqToSet(Tail(s))

\* how often resolver r occurs in the queue q
RECURSIVE Occurrences(_, _)
Occurrences(q, r) ==
    IF q = <<>> THEN 0
    ELSE (IF Head(q) = r THEN 1 ELSE 0) + Occurrences(Tail(q), r)

\* ------------------------------------------------------------ hook pieces
\* The promise of call i after its resolver ran n more times with `result`:
\* only the first resolve of a promise settles it.
Resolved(c, n, result, by, byWin) ==
    IF n = 0 THEN c
    ELSE IF c.state = "pending"
         THEN [c EXCEPT !.state = "resolved", !.result = result,
                        !.released = c.released + n, !.by = by, !.byWin = byWin]
         ELSE [c EXCEPT !.released = c.released + n]

\* a flush that forgets the waiters registered after the first one
FirstOnlyFlushedCalls(result, by, byWin) ==
    [i \in DOMAIN calls |->
        Resolved(calls[i],
                 IF pendingResolversRef # <<>> /\ Head(pendingResolversRef) = i
                 THEN 1 ELSE 0,
                 result, by, byWin)]

\* flushResolvers: splice(0) takes the whole queue, each resolver is called
FlushedCalls(result, by, byWin) ==
    [i \in DOMAIN calls |->
        Resolved(calls[i], Occurrences(pendingResolversRef, i), result, by, byWin)]

UnflushedQueue == pendingResolversRef

\* what splice(0) leaves in pendingResolversRef.current
FlushedQueue == <<>>

\* clearTimeout(handle)
ClearTimeout(ts, handle) == {t \in ts : t.id # handle}

CancelNothing(ts) == ts

\* if (timerRef.current) clearTimeout(timerRef.current)
CancelArmed(ts) == IF timerRef # NoTimer THEN ClearTimeout(ts, timerRef) ELSE ts

\* the test `lastResult !== result` of performValidation, on the lastResult
\* its closure captured
SetterCalled(cap, result) == cap # result

\* setLastResult(result): React drops updates of an unmounted component
SetLastResult(result) == IF mounted THEN result ELSE lastResult

\* if (lastResult !== result) setLastResult(result), with the lastResult that
\* the performValidation closure captured
SignalAfter(cap, result) ==
    IF SetterCalled(cap, result) THEN SetLastResult(result) ELSE lastResult

InFlight == {w \in DOMAIN windows : windows[w].status = "inflight"}

NumSettled == Cardinality({w \in DOMAIN windows : windows[w].status = "settled"})

\* the promise a call returns; quiet tells whether every promise returned
\* before was settled when the call was made
NewCall(v, state, result, by, win) ==
    [value |-> v, state |-> state, result |-> result, released |-> 0,
     by |-> by, byWin |-> 0, win |-> win,
     quiet |-> \A i \in DOMAIN calls : calls[i].state = "resolved"]

\* ------------------------------------------------------------------ Init
\* what validate can resolve to
RawResults == IF nullish THEN Booleans \cup Nullish ELSE Booleans

\* the candidate values a caller can pass next: the default value, the values
\* passed before, and one new value
UsedValues == {calls[i].value : i \in DOMAIN calls}

Inputs == {defaultValue} \cup {v \in Values : \A u \in 1..(v - 1) : u \in UsedValues}

InitWith(ds, ns, us) ==
    /\ delay \in ds
    /\ negate \in ns
    /\ nullish \in us
    /\ lastResult = "false"
    /\ rendered = {"false"}
    /\ mounted = TRUE
    /\ lastValueRef = defaultValue
    /\ lastResultRef = "false"
    /\ timerRef = NoTimer
    /\ pendingResolversRef = <<>>
    /\ pendingValueRef = defaultValue
    /\ timers = {}
    /\ calls = <<>>
    /\ windows = <<>>
    /\ cleanupCleared = FALSE
    /\ sinceInvoke = MaxDelay
    /\ sinceCall = MaxDelay

\* the hook after its first render, with a validate function that honours its
\* boolean return type
Init == InitWith(Delays, BOOLEAN, {FALSE})

\* --------------------------------------------------------------- actions
\* a default branch that also records the value as the last validated one
DefaultRemembered(v) ==
    /\ mounted
    /\ Len(calls) < MaxCalls
    /\ ObjectIs(v, defaultValue)
    /\ calls' = Append(calls, NewCall(v, "resolved", "true", "default", 0))
    /\ lastValueRef' = v
    /\ lastResultRef' = "true"
    /\ UNCHANGED <<options, ghosts, lastResult, rendered, mounted, timerRef,
                   pendingResolversRef, pendingValueRef, timers, windows>>

\* debouncedValidator(value), first branch: Object.is(value, defaultValue)
DebouncedValidatorDefault(v) ==
    /\ mounted
    /\ Len(calls) < MaxCalls
    /\ ObjectIs(v, defaultValue)
    /\ calls' = Append(calls, NewCall(v, "resolved", "true", "default", 0))
    /\ UNCHANGED <<options, ghosts, lastResult, rendered, mounted, lastValueRef,
                   lastResultRef, timerRef, pendingResolversRef,
                   pendingValueRef, timers, windows>>

CacheHitWhileArmed(v) == StrictEq(lastValueRef, v)

\* a cache test that does not look at the value
CacheHitAnyValue(v) == timerRef = NoTimer

\* the cache test of debouncedValidator
CacheHit(v) == StrictEq(lastValueRef, v) /\ timerRef = NoTimer

\* a cache branch that also publishes the cached outcome as lastResult
CachedPublished(v) ==
    /\ mounted
    /\ Len(calls) < MaxCalls
    /\ ~ObjectIs(v, defaultValue)
    /\ CacheHit(v)
    /\ calls' = Append(calls, NewCall(v, "resolved", lastResultRef, "cache", 0))
    /\ lastResult' = lastResultRef
    /\ rendered' = rendered \cup {lastResultRef}
    /\ UNCHANGED <<options, ghosts, mounted, lastValueRef, lastResultRef, timerRef,
                   pendingResolversRef, pendingValueRef, timers, windows>>

\* debouncedValidator(value), second branch: the cached value, no timer armed
DebouncedValidatorCached(v) ==
    /\ mounted
    /\ Len(calls) < MaxCalls
    /\ ~ObjectIs(v, defaultValue)
    /\ CacheHit(v)
    /\ calls' = Append(calls, NewCall(v, "resolved", lastResultRef, "cache", 0))
    /\ UNCHANGED <<options, ghosts, lastResult, rendered, mounted, lastValueRef,
                   lastResultRef, timerRef, pendingResolversRef,
                   pendingValueRef, timers, windows>>

\* the timer a call arms: it closes over value and over the performValidation
\* of the render that made this debouncedValidator (cap is its lastResult)
NewTimer(id, v, cap) == [id |-> id, value |-> v, cap |-> cap, left |-> TimeoutOf(delay)]

\* the timers after `if (timerRef.current) clearTimeout(...)` and setTimeout
ArmedTimers(id, v, cap) == CancelArmed(timers) \cup {NewTimer(id, v, cap)}

\* debouncedValidator(value), third branch: register a waiter, (re)arm the timer
DebouncedValidatorPending(v, cap) ==
    /\ mounted
    /\ Len(calls) < MaxCalls
    /\ ~ObjectIs(v, defaultValue)
    /\ ~CacheHit(v)
    /\ LET id == Len(calls) + 1 IN
        /\ calls' = Append(calls, NewCall(v, "pending", "none", "none", Len(windows) + 1))
        /\ pendingResolversRef' = Append(pendingResolversRef, id)
        /\ pendingValueRef' = v
        /\ timers' = ArmedTimers(id, v, cap)
        /\ timerRef' = id
    /\ sinceCall' = 0
    /\ UNCHANGED <<options, cleanupCleared, sinceInvoke, lastResult, rendered, mounted,
                   lastValueRef, lastResultRef, windows>>

\* one clock tick: every pending timeout comes one tick closer
Tick ==
    /\ \E t \in timers : t.left > 0
    /\ timers' = {[t EXCEPT !.left = IF t.left > 0 THEN t.left - 1 ELSE 0] : t \in timers}
    /\ sinceInvoke' = IF sinceInvoke < MaxDelay THEN sinceInvoke + 1 ELSE MaxDelay
    /\ sinceCall' = IF sinceCall < MaxDelay THEN sinceCall + 1 ELSE MaxDelay
    /\ UNCHANGED <<options, cleanupCleared, lastResult, rendered, mounted, lastValueRef,
                   lastResultRef, timerRef, pendingResolversRef,
                   pendingValueRef, calls, windows>>

\* the record of a timer expiry: validate is called unless the callback returns
\* at `if (currentValue !== value) return`
Expiry(t) ==
    [value |-> pendingValueRef, cap |-> t.cap,
     status |-> IF StrictEq(pendingValueRef, t.value) THEN "inflight" ELSE "skipped",
     raw |-> "none", outcome |-> "none", order |-> 0, overlaps |-> InFlight]

StaleRefAfterExpiry == timerRef

\* timerRef.current = null, first statement of the setTimeout callback
RefAfterExpiry == NoTimer

\* the setTimeout callback up to `await validate(currentValue)`
TimerExpire(t) ==
    /\ t \in timers
    /\ t.left = 0
    /\ timers' = timers \ {t}
    /\ timerRef' = RefAfterExpiry
    /\ windows' = Append(windows, Expiry(t))
    /\ sinceInvoke' = IF Expiry(t).status = "inflight" THEN 0 ELSE sinceInvoke
    /\ UNCHANGED <<options, cleanupCleared, sinceCall, lastResult, rendered, mounted, lastValueRef,
                   lastResultRef, pendingResolversRef, pendingValueRef, calls>>

StaleCachedValue(currentValue) == lastValueRef

\* the cache entry written by performValidation
CachedValue(currentValue) == currentValue

\* performValidation after validate returned or resolved raw (the try block)
ValidateResolves(w, raw) ==
    /\ w \in InFlight
    /\ LET result == NegateApplied(raw)
           win == windows[w] IN
        /\ lastValueRef' = CachedValue(win.value)
        /\ lastResultRef' = result
        /\ lastResult' = SignalAfter(win.cap, result)
        /\ rendered' = rendered \cup {lastResult'}
        /\ calls' = FlushedCalls(result, "validation", w)
        /\ pendingResolversRef' = FlushedQueue
        /\ windows' = [windows EXCEPT ![w] =
              [win EXCEPT !.status = "settled", !.raw = raw, !.outcome = result,
                          !.order = NumSettled + 1]]
    /\ UNCHANGED <<options, ghosts, mounted, timerRef, pendingValueRef, timers>>

\* a catch block that records the outcome but not the value
FailureKeepsValue(currentValue) == lastValueRef

\* the cache entry written by the catch block
FailureCachedValue(currentValue) == currentValue

\* performValidation after validate threw or rejected (the catch block)
ValidateThrows(w) ==
    /\ w \in InFlight
    /\ LET result == "false"
           win == windows[w] IN
        /\ lastValueRef' = FailureCachedValue(win.value)
        /\ lastResultRef' = result
        /\ lastResult' = SignalAfter(win.cap, result)
        /\ rendered' = rendered \cup {lastResult'}
        /\ calls' = FlushedCalls(result, "validation", w)
        /\ pendingResolversRef' = FlushedQueue
        /\ windows' = [windows EXCEPT ![w] =
              [win EXCEPT !.status = "settled", !.raw = "throw", !.outcome = result,
                          !.order = NumSettled + 1]]
    /\ UNCHANGED <<options, ghosts, mounted, timerRef, pendingValueRef, timers>>

\* the cleanup of the mount effect (unmount)
Cleanup ==
    /\ mounted
    /\ mounted' = FALSE
    /\ timers' = CancelArmed(timers)
    /\ cleanupCleared' = (timerRef # NoTimer)
    /\ timerRef' = NoTimer
    /\ calls' = FlushedCalls(lastResultRef, "cleanup", 0)
    /\ pendingResolversRef' = FlushedQueue
    /\ UNCHANGED <<options, sinceInvoke, sinceCall, lastResult, rendered, lastValueRef,
                   lastResultRef, pendingValueRef, windows>>

Next ==
    \/ \E v \in Inputs : DebouncedValidatorDefault(v)
    \/ \E v \in Inputs : DebouncedValidatorCached(v)
    \/ \E v \in Inputs, cap \in rendered : DebouncedValidatorPending(v, cap)
    \/ Tick
    \/ \E t \in timers : TimerExpire(t)
    \/ \E w \in DOMAIN windows, raw \in RawResults : ValidateResolves(w, raw)
    \/ \E w \in DOMAIN windows : ValidateThrows(w)
    \/ Cleanup

Spec == Init /\ [][Next]_vars

\* validate settles: some started call returns, resolves, throws or rejects
ValidateSettles ==
    \E w \in DOMAIN windows :
        ValidateThrows(w) \/ \E raw \in RawResults : ValidateResolves(w, raw)

\* The runtime lets time pass and runs the callback of a due timeout, and every
\* started validate call settles.
\* the hook with a validate function that may also resolve to null or
\* undefined, as the test suite's does
InitNullish == InitWith(Delays, BOOLEAN, {TRUE})

SpecNullish == InitNullish /\ [][Next]_vars

SpecFair ==
    /\ Init
    /\ [][Next]_vars
    /\ WF_vars(Tick)
    /\ WF_vars(\E t \in timers : TimerExpire(t))
    /\ WF_vars(ValidateSettles)

\* --------------------------------------------------------- useDebouncedCheck
\* The older hook of src/hooks/use-debounce-check.ts, over the state it shares
\* by name with useDebouncedValidator: lastResult, lastValueRef, timerRef and
\* the runtime's timers. It has no waiter queue, no lastResultRef and no effect
\* cleanup; each call's promise is resolved by its own timer callback. In
\* `windows` it logs one record per check call.

\* useDebouncedCheck after its first render
InitCheck == InitWith(Delays, BOOLEAN, {FALSE})

\* what debouncedCheck leaves alone in every branch
checkFrame == <<options, ghosts, mounted, lastResultRef, pendingResolversRef,
                pendingValueRef>>

\* debouncedCheck(value), first branch: value === defaultValue
DebouncedCheckDefault(v) ==
    /\ Len(calls) < MaxCalls
    /\ StrictEq(v, defaultValue)
    /\ calls' = Append(calls, NewCall(v, "resolved", "true", "default", 0))
    /\ UNCHANGED <<checkFrame, lastResult, rendered, lastValueRef, timerRef,
                   timers, windows>>

\* debouncedCheck(value), second branch: the value submitted last; cap is the
\* lastResult of the render that made this debouncedCheck
DebouncedCheckSame(v, cap) ==
    /\ Len(calls) < MaxCalls
    /\ ~StrictEq(v, defaultValue)
    /\ StrictEq(lastValueRef, v)
    /\ calls' = Append(calls, NewCall(v, "resolved", cap, "same", 0))
    /\ UNCHANGED <<checkFrame, lastResult, rendered, lastValueRef, timerRef,
                   timers, windows>>

\* the timer debouncedCheck arms: it closes over value and resolve
CheckTimer(id, v) == [id |-> id, value |-> v, cap |-> "none", left |-> TimeoutOf(delay)]

\* debouncedCheck(value), third branch: remember the value, clear the timer
\* armed before, arm a new one
DebouncedCheckArm(v) ==
    /\ Len(calls) < MaxCalls
    /\ ~StrictEq(v, defaultValue)
    /\ ~StrictEq(lastValueRef, v)
    /\ LET id == Len(calls) + 1 IN
        /\ calls' = Append(calls, NewCall(v, "pending", "none", "none", 0))
        /\ lastValueRef' = v
        /\ timers' = CancelArmed(timers) \cup {CheckTimer(id, v)}
        /\ timerRef' = id
    /\ UNCHANGED <<checkFrame, lastResult, rendered, windows>>

\* the record of a check call: the value and the resolve of the call that
\* armed the timer
CheckCall(t) ==
    [value |-> t.value, call |-> t.id, status |-> "inflight", raw |-> "none",
     outcome |-> "none", order |-> 0]

\* the setTimeout callback up to `await Promise.resolve(check(value))`
CheckTimerExpire(t) ==
    /\ t \in timers
    /\ t.left = 0
    /\ timers' = timers \ {t}
    /\ windows' = Append(windows, CheckCall(t))
    /\ UNCHANGED <<checkFrame, lastResult, rendered, lastValueRef, timerRef, calls>>

\* setLastResult(result); resolve(result)
CheckSettled(w, raw, result) ==
    /\ w \in InFlight
    /\ lastResult' = SetLastResult(result)
    /\ rendered' = rendered \cup {lastResult'}
    /\ calls' = [calls EXCEPT ![windows[w].call] = Resolved(@, 1, result, "check", w)]
    /\ windows' = [windows EXCEPT ![w] =
          [@ EXCEPT !.status = "settled", !.raw = raw, !.outcome = result,
                    !.order = NumSettled + 1]]
    /\ UNCHANGED <<checkFrame, lastValueRef, timerRef, timers>>

\* the callback after check returned or resolved raw (the try block)
CheckResolves(w, raw) == CheckSettled(w, raw, NegateApplied(raw))

\* the callback after check threw or rejected (the catch block)
CheckThrows(w) == CheckSettled(w, "throw", "false")

NextCheck ==
    \/ \E v \in Inputs : DebouncedCheckDefault(v)
    \/ \E v \in Inputs, cap \in rendered : DebouncedCheckSame(v, cap)
    \/ \E v \in Inputs : DebouncedCheckArm(v)
    \/ Tick
    \/ \E t \in timers : CheckTimerExpire(t)
    \/ \E w \in DOMAIN windows, raw \in RawResults : CheckResolves(w, raw)
    \/ \E w \in DOMAIN windows : CheckThrows(w)

SpecCheck == InitCheck /\ [][NextCheck]_vars

\* check settles: some started call returns, resolves, throws or rejects
CheckSettles ==
    \E w \in DOMAIN windows :
        CheckThrows(w) \/ \E raw \in RawResults : CheckResolves(w, raw)

\* The runtime lets time pass and runs the callback of a due timeout, and every
\* started check call settles.
SpecCheckFair ==
    /\ InitCheck
    /\ [][NextCheck]_vars
    /\ WF_vars(Tick)
    /\ WF_vars(\E t \in timers : CheckTimerExpire(t))
    /\ WF_vars(CheckSettles)

\* ---------------------------------------------------------------- claims
\* the calls that registered a waiter
Queued == {i \in DOMAIN calls : calls[i].win > 0}

\* the waiters registered for timer expiry w
WaitersOf(w) == {i \in Queued : calls[i].win = w}

Max(S) == CHOOSE x \in S : \A y \in S : y <= x

\* C1 (debounce collapse): the calls of one burst (the waiters registered
\* before one timer expiry) lead to one validate call, made with the value of
\* the last call of the burst, and every promise of the burst that a validate
\* call resolves is resolved by that call, with its outcome.
C1_DebounceCollapse ==
    /\ \A w \in DOMAIN windows :
          /\ windows[w].status # "skipped"
          /\ WaitersOf(w) # {}
          /\ windows[w].value = calls[Max(WaitersOf(w))].value
    /\ \A i \in Queued :
          calls[i].by = "validation" =>
              /\ calls[i].byWin = calls[i].win
              /\ calls[i].result = windows[calls[i].win].outcome

\* C2 (cross-window isolation): a validate call that completes releases only
\* waiters registered before its own timer fired, never the waiters of a
\* later window.
C2_CrossWindowIsolation ==
    \A i \in Queued : calls[i].by = "validation" => calls[i].win <= calls[i].byWin

C4_ExactlyOnceRelease ==
    \A i \in Queued :
        /\ calls[i].released <= 1
        /\ calls[i].released = (IF calls[i].state = "resolved" THEN 1 ELSE 0)
        /\ Occurrences(pendingResolversRef, i) = 1 - calls[i].released

\* a waiter released by a validate call and another one released by cleanup
C4_Witness ==
    /\ \E i \in Queued : calls[i].by = "validation" /\ calls[i].released = 1
    /\ \E i \in Queued : calls[i].by = "cleanup" /\ calls[i].released = 1

\* C5 (single timer): at most one timeout is pending, and timerRef holds its
\* handle exactly when there is one.
C5_AtMostOneTimer ==
    /\ Cardinality(timers) <= 1
    /\ \A t \in timers : timerRef = t.id
    /\ timerRef # NoTimer => \E t \in timers : t.id = timerRef

\* a call armed its timer while the timer of the previous call was pending
C5_Witness ==
    \E t \in timers :
        /\ t.id > 1
        /\ calls[t.id - 1].win = calls[t.id].win
        /\ calls[t.id - 1].state = "pending"

\* this step is a call of debouncedValidator
IsCall == Len(calls') = Len(calls) + 1

\* the promise that call returns, and the value passed
TheCall == calls'[Len(calls')]

\* nothing but the log of calls changes
OnlyLogged ==
    /\ SubSeq(calls', 1, Len(calls)) = calls
    /\ UNCHANGED <<lastResult, rendered, mounted, lastValueRef, lastResultRef,
                   timerRef, pendingResolversRef, pendingValueRef, timers, windows,
                   cleanupCleared, sinceInvoke, sinceCall>>

\* the validate call that settled n-th
SettledAt(n) == CHOOSE w \in DOMAIN windows : windows[w].order = n

\* the validate calls on v that have settled
SettledOn(v) ==
    {w \in DOMAIN windows : windows[w].status = "settled" /\ windows[w].value = v}

\* the most recently settled validate call on v
LastSettledOn(v) ==
    CHOOSE w \in SettledOn(v) : \A u \in SettledOn(v) : windows[u].order <= windows[w].order

\* C6 (cache bypass): when the most recently settled validate call was made
\* on v and no timeout is pending, a call with v (not the default value)
\* returns a promise already resolved with the outcome of that validate call,
\* arms no timer, registers no waiter and starts no validate call.
C6_CacheBypass ==
    [][(/\ IsCall
        /\ TheCall.value # defaultValue
        /\ timers = {}
        /\ NumSettled > 0
        /\ windows[SettledAt(NumSettled)].value = TheCall.value)
       => (/\ TheCall.state = "resolved"
           /\ TheCall.result = windows[SettledAt(NumSettled)].outcome
           /\ OnlyLogged)]_vars

\* a call answered from the cache with the outcome "true" of a validate call
C6_Witness ==
    \E i \in DOMAIN calls :
        /\ calls[i].by = "cache"
        /\ calls[i].result = "true"
        /\ SettledOn(calls[i].value) # {}

\* C7 (default bypass): a call with the default value returns a promise
\* already resolved with true and changes nothing else: no validate call, no
\* timer armed or cancelled, no waiter, cache and lastResult untouched.
C7_DefaultBypass ==
    [][(IsCall /\ TheCall.value = defaultValue)
       => (/\ TheCall.state = "resolved"
           /\ TheCall.result = "true"
           /\ OnlyLogged)]_vars

\* a default call made while a timer is pending, a validate call is in flight
\* and another value is cached
C7_Witness ==
    /\ \E i \in DOMAIN calls : calls[i].by = "default" /\ i = Len(calls)
    /\ timers # {}
    /\ pendingResolversRef # <<>>
    /\ lastValueRef # defaultValue

\* C8 (fail-closed): when validate throws or rejects while the hook is
\* mounted, every waiter of that window is resolved with false and lastResult
\* is false afterwards.
C8_FailClosed ==
    [][\A w \in DOMAIN windows :
          (mounted /\ windows[w].status = "inflight" /\ windows'[w].raw = "throw")
          => (/\ lastResult' = "false"
              /\ \A i \in WaitersOf(w) :
                    calls'[i].state = "resolved" /\ calls'[i].result = "false")]_vars

\* C9 (failure is never cached): when the latest validate call on v threw or
\* rejected, a call with v made while no timeout is pending is not answered at
\* once: it registers a waiter and arms the timer.
C9_FailureNotCached ==
    [][(/\ IsCall
        /\ TheCall.value # defaultValue
        /\ timers = {}
        /\ SettledOn(TheCall.value) # {}
        /\ windows[LastSettledOn(TheCall.value)].raw = "throw")
       => (TheCall.state = "pending" /\ timers' # {})]_vars

\* the maxCacheSize option the test suite passes
maxCacheSize == 2

\* the bounded FIFO cache after the first n validate calls settled: a failure
\* inserts nothing, a value already present keeps its place, and a new value
\* evicts the oldest one when the cache is full
RECURSIVE FifoCache(_)
FifoCache(n) ==
    IF n = 0 THEN <<>>
    ELSE LET prev == FifoCache(n - 1)
             win == windows[SettledAt(n)]
         IN IF win.raw = "throw" \/ win.value \in SeqToSet(prev) THEN prev
            ELSE IF Len(prev) >= maxCacheSize THEN Append(Tail(prev), win.value)
            ELSE Append(prev, win.value)

\* C10 (FIFO eviction, maxCacheSize = 2): as long as no validate call failed,
\* a call made while no timeout is pending is answered at once exactly when
\* its value is one of the maxCacheSize values inserted last; an evicted value
\* is validated again.
C10_FifoEviction ==
    [][(/\ IsCall
        /\ TheCall.value # defaultValue
        /\ timers = {}
        /\ \A w \in DOMAIN windows : windows[w].raw # "throw")
       => (TheCall.state = "resolved"
              <=> TheCall.value \in SeqToSet(FifoCache(NumSettled)))]_vars

\* validate call w settles in this step
Settles(w) == windows[w].status = "inflight" /\ windows'[w].status = "settled"

\* the waiters this step releases
ReleasedNow == {i \in DOMAIN calls : calls[i].state = "pending" /\ calls'[i].state = "resolved"}

\* the boolean b is the logical negation of the validate result raw
IsNegationOf(b, raw) == b \in Booleans /\ (b = "true") = (raw # "true")

\* C11 (negation): with negate = true, every waiter that a settling validate
\* call releases gets the negation of what validate returned, and a later call
\* answered from the cache gets that same negated outcome, with no further
\* validate call.
C11_Negation ==
    [][negate =>
        /\ \A w \in DOMAIN windows :
              (Settles(w) /\ windows'[w].raw # "throw")
              => /\ IsNegationOf(lastResultRef', windows'[w].raw)
                 /\ \A i \in ReleasedNow : IsNegationOf(calls'[i].result, windows'[w].raw)
        /\ (IsCall /\ TheCall.by = "cache"
               /\ windows[LastSettledOn(TheCall.value)].raw # "throw")
              => /\ IsNegationOf(TheCall.result, windows[LastSettledOn(TheCall.value)].raw)
                 /\ windows' = windows]_vars

\* validate resolved true, its waiter got false, and a cache hit replayed false
C11_Witness ==
    /\ negate
    /\ \E i, j \in DOMAIN calls :
          /\ i < j
          /\ calls[i].by = "validation" /\ calls[i].result = "false"
          /\ windows[calls[i].byWin].raw = "true"
          /\ calls[j].by = "cache" /\ calls[j].result = "false"
          /\ calls[j].value = calls[i].value
          /\ Len(windows) = 1

\* C12 (latest value wins): when the last timer expiry started its validate
\* call while an older one was in flight, then once all have settled and no
\* timeout is pending, the cache and lastResult are those of the last expiry.
C12_LatestValueWins ==
    (/\ mounted
     /\ timers = {}
     /\ InFlight = {}
     /\ windows # <<>>
     /\ windows[Len(windows)].overlaps # {})
    => (/\ lastValueRef = windows[Len(windows)].value
        /\ lastResultRef = windows[Len(windows)].outcome
        /\ lastResult = windows[Len(windows)].outcome)

\* C13 (lastResult is the latest outcome): when a validate call settles while
\* the hook is mounted, lastResult is its outcome afterwards.
C13_LastResultIsLatest ==
    [][\A w \in DOMAIN windows :
          (mounted /\ Settles(w)) => lastResult' = windows'[w].outcome]_vars

\* this step is the cleanup
IsCleanup == mounted /\ ~mounted'

\* C14 (teardown cancels and releases): the cleanup leaves no pending timeout,
\* no armed handle, no queued waiter and no pending promise, and validate is
\* never called for a window whose timer it cancelled: no timer expires once
\* the cleanup has run.
C14_TeardownCancels ==
    [][~mounted' =>
        /\ timers' = {}
        /\ timerRef' = NoTimer
        /\ pendingResolversRef' = <<>>
        /\ \A i \in DOMAIN calls' : calls'[i].state = "resolved"
        /\ Len(windows') = Len(windows)]_vars

\* the cleanup ran while a timer was armed: it cancelled it and released the
\* waiter of a window that never fired
C14_Witness ==
    /\ ~mounted
    /\ cleanupCleared
    /\ \E i \in Queued : calls[i].by = "cleanup" /\ calls[i].win > Len(windows)

\* C15 (teardown value): every waiter the cleanup releases is resolved with
\* the value lastResult has at that moment.
C15_TeardownValue ==
    [][IsCleanup => \A i \in ReleasedNow : calls'[i].result = lastResult]_vars

\* C16 (teardown cancels only a pending timer): the cleanup calls clearTimeout
\* exactly when a timeout is pending at that moment.
C16_CancelIffPending ==
    [][IsCleanup => (cleanupCleared' <=> timers # {})]_vars

\* a cleanup that cancelled nothing because the last armed timer had fired
C16_Witness ==
    /\ ~mounted
    /\ ~cleanupCleared
    /\ windows # <<>>

\* C17 (signal changes only on completion): lastResult is false initially and
\* a step changes it only if a validate call settles in that step.
C17_SignalOnlyOnCompletion ==
    /\ lastResult = "false"
    /\ [][lastResult' # lastResult => \E w \in DOMAIN windows : Settles(w)]_vars

\* lastResult has become true, and calls were answered by default and by cache
C17_Witness ==
    /\ lastResult = "true"
    /\ \E i \in DOMAIN calls : calls[i].by = "cache"

\* C18 (no redundant signal update): when a validate call settles while the
\* hook is mounted, setLastResult is called only with a value that differs
\* from the current lastResult.
C18_NoRedundantUpdate ==
    [][\A w \in DOMAIN windows :
          (mounted /\ Settles(w) /\ SetterCalled(windows[w].cap, windows'[w].outcome))
          => lastResult # windows'[w].outcome]_vars

\* the cache holds an entry for v: the validate call that settled last was on v
CacheHolds(v) == NumSettled > 0 /\ windows[SettledAt(NumSettled)].value = v

\* the call of this step was answered at once from the cache
AnsweredFromCache ==
    /\ TheCall.state = "resolved"
    /\ TheCall.result = windows[SettledAt(NumSettled)].outcome
    /\ OnlyLogged

\* C19 as stated: a call with a cached value is answered at once whenever no
\* timer is armed for that value.
C19_CachedUnlessArmedForValue ==
    [][(/\ IsCall
        /\ TheCall.value # defaultValue
        /\ CacheHolds(TheCall.value)
        /\ \A t \in timers : t.value # TheCall.value)
       => AnsweredFromCache]_vars

\* C19 (amended): a call with a cached value is answered at once from the
\* cache exactly when no timer is armed at all; when a timer is armed, for
\* whatever value, the call registers a waiter and re-arms the timer with its
\* own value.
C19_CachedUnlessAnyTimer ==
    [][(/\ IsCall
        /\ TheCall.value # defaultValue
        /\ CacheHolds(TheCall.value))
       => IF timers = {}
          THEN AnsweredFromCache
          ELSE /\ TheCall.state = "pending"
               /\ pendingResolversRef' = Append(pendingResolversRef, Len(calls'))
               /\ \A t \in timers' : t.id = Len(calls') /\ t.value = TheCall.value
               /\ timers' # {}
               /\ windows' = windows]_vars

\* a call with the cached value registered a waiter because a timer was armed
\* for another value
C19_Witness ==
    \E i \in Queued :
        /\ i > 1
        /\ calls[i].state = "pending"
        /\ CacheHolds(calls[i].value)
        /\ calls[i - 1].value # calls[i].value
        /\ calls[i - 1].win = calls[i].win
        /\ timers # {}

\* this step calls validate
Invokes == Len(windows') = Len(windows) + 1 /\ windows'[Len(windows')].status = "inflight"

\* C20 (rate limit): when validate is called and it was called before, at
\* least `delay` ticks have passed since the previous call.
C20_RateLimit ==
    [][(Invokes /\ \E w \in DOMAIN windows : windows[w].status # "skipped")
       => sinceInvoke >= delay]_vars

\* validate was called twice with a positive delay
C20_Witness ==
    /\ delay >= 1
    /\ Cardinality({w \in DOMAIN windows : windows[w].status # "skipped"}) >= 2

\* C21 (null and undefined count as false): with negate = false, when validate
\* resolves to null or undefined, the outcome recorded for the value is the
\* boolean false and every waiter released by that call gets the boolean
\* false.
C21_NullishIsFalse ==
    [][\A w \in DOMAIN windows :
          (~negate /\ Settles(w) /\ windows'[w].raw \in Nullish)
          => /\ lastResultRef' = "false"
             /\ \A i \in ReleasedNow : calls'[i].result = "false"]_vars

\* the last registering call before timer expiry w
LastWaiter(w) == Max(WaitersOf(w))

C23_NegativeDelayIsZero ==
    /\ [](delay < 0 => /\ \A t \in timers : t.left = 0
                       /\ sinceCall \in {0, MaxDelay})
    /\ [][(delay < 0 /\ IsCall) => windows' = windows]_vars

\* with a negative delay, validate ran for the call and resolved its promise
\* with its outcome
C23_Witness ==
    /\ delay < 0
    /\ \E i \in Queued :
          /\ calls[i].by = "validation"
          /\ calls[i].byWin = calls[i].win
          /\ windows[calls[i].win].value = calls[i].value
          /\ calls[i].result = windows[calls[i].win].outcome
          /\ calls[i].result = "true"

\* C24 (teardown while validate is in flight): a cleanup that runs while a
\* validate call is in flight resolves every queued waiter in that step and
\* empties the queue; a validate call that settles after the cleanup releases
\* no waiter and changes no promise.
C24_TeardownInFlight ==
    [][/\ (IsCleanup /\ InFlight # {})
          => /\ pendingResolversRef' = <<>>
             /\ \A i \in SeqToSet(pendingResolversRef) :
                   calls'[i].state = "resolved" /\ calls'[i].by = "cleanup"
             /\ windows' = windows
       /\ (~mounted /\ \E w \in DOMAIN windows : Settles(w))
          => calls' = calls /\ pendingResolversRef' = <<>>]_vars

\* a waiter of a fired window was released by the cleanup, and the validate
\* call of that window settled afterwards
C24_Witness ==
    /\ ~mounted
    /\ \E i \in Queued :
          /\ calls[i].by = "cleanup"
          /\ calls[i].win <= Len(windows)
          /\ windows[calls[i].win].status = "settled"

\* C25 (trailing-edge quiet period): a call that registers a waiter leaves
\* exactly one pending timeout, its own, with the full delay to run, whether
\* or not a timer was pending before; and validate is never called earlier
\* than `delay` ticks after the most recent registering call.
C25_QuietPeriod ==
    [][/\ (IsCall /\ TheCall.state = "pending")
          => /\ Cardinality(timers') = 1
             /\ \A t \in timers' : /\ t.id = Len(calls')
                                    /\ t.left = TimeoutOf(delay)
             /\ sinceCall' = 0
       /\ Invokes => sinceCall >= delay]_vars

\* with a positive delay, a pending timer was replaced by the timer of a later
\* call, and validate was called with the value of the later call
C25_Witness ==
    /\ delay >= 1
    /\ \E i \in Queued :
          /\ i > 1
          /\ calls[i - 1].win = calls[i].win
          /\ calls[i].win <= Len(windows)
          /\ windows[calls[i].win].status # "skipped"
          /\ windows[calls[i].win].value = calls[i].value

OneAtATime ==
    \A i \in DOMAIN calls :
        /\ calls[i].quiet
        /\ calls[i].value # defaultValue
        /\ \A j \in DOMAIN calls : j # i => calls[j].value # calls[i].value

\* C27 (distinct values, one at a time): when every call is made with a new
\* non-default value after the earlier promises were settled, no call is
\* answered from the cache; validate is called at most once per call, with
\* that call's value, and exactly once for a call it resolves.
C27_DistinctValuesValidated ==
    OneAtATime =>
        /\ \A i \in DOMAIN calls :
              /\ calls[i].by \in {"none", "validation", "cleanup"}
              /\ calls[i].win = i
              /\ calls[i].by = "validation"
                    => calls[i].byWin = i /\ calls[i].result = windows[i].outcome
        /\ Len(windows) <= Len(calls)
        /\ \A w \in DOMAIN windows :
              windows[w].status # "skipped" /\ windows[w].value = calls[w].value

\* three calls with three values, one after the other, each one validated
C27_Witness ==
    /\ OneAtATime
    /\ Len(calls) = 3
    /\ Len(windows) = 3
    /\ \A i \in DOMAIN calls : calls[i].by = "validation"

\* what performValidation makes of raw
OutcomeOf(raw) == IF raw = "throw" THEN "false" ELSE NegateApplied(raw)

\* C28 (cache pair from one validate call): whenever a value is cached, the
\* cached value and the cached outcome are those of the validate call that
\* settled last, and every promise resolved through the cache path for v got
\* the outcome of a settled validate call on v.
C28_CachePairFromOneCall ==
    /\ lastValueRef # defaultValue
          => /\ NumSettled > 0
             /\ windows[SettledAt(NumSettled)].value = lastValueRef
             /\ windows[SettledAt(NumSettled)].outcome = lastResultRef
             /\ lastResultRef = OutcomeOf(windows[SettledAt(NumSettled)].raw)
    /\ lastValueRef = defaultValue => NumSettled = 0
    /\ \A i \in DOMAIN calls :
          calls[i].by = "cache"
              => \E w \in SettledOn(calls[i].value) :
                    calls[i].result = OutcomeOf(windows[w].raw)

\* validate calls on two values settled, the later one by throwing, and a
\* call was then answered from the cache
C28_Witness ==
    /\ Len(windows) = 2
    /\ windows[1].value # windows[2].value
    /\ windows[1].raw = "true"
    /\ windows[2].raw = "throw"
    /\ calls[Len(calls)].by = "cache"

C30_NoWriteAfterTeardown ==
    [][(~mounted /\ \E w \in DOMAIN windows : Settles(w))
       => UNCHANGED <<lastResult, lastValueRef, lastResultRef>>]_vars

\* C31 (useDebouncedCheck, every promise resolves): when due timers fire and
\* started check calls settle, every promise debouncedCheck returned is
\* eventually resolved, also the promise of a call whose timer a later call
\* cleared; and a promise its check call resolves gets that call's result,
\* negated when negate is set.
C31_EveryCheckPromiseResolves ==
    /\ \A i \in 1..MaxCalls :
          (i \in DOMAIN calls /\ calls[i].state = "pending")
              ~> (i \in DOMAIN calls /\ calls[i].state = "resolved")
    /\ [](\A i \in DOMAIN calls :
             calls[i].by = "check"
                 => /\ windows[calls[i].byWin].call = i
                    /\ calls[i].result = OutcomeOf(windows[calls[i].byWin].raw))

\* C32 (useDebouncedCheck, same-value answer): a call resolved at once because
\* its value is the value submitted last gets the outcome of a settled check
\* call on that same value.
C32_SameValueAnswer ==
    [][(IsCall /\ TheCall.by = "same")
       => \E w \in SettledOn(TheCall.value) : TheCall.result = windows[w].outcome]_vars

====
